---- MODULE Spec2Model ----
(***************************************************************************)
(* A model of the celloflow frontend: the in-memory cello mapping          *)
(* (utils/celloMapping.ts), the Debug Scene that builds and exports it     *)
(* (components/StringPointDebugScene.tsx), the Permanent Mapping scene     *)
(* that plays the 40 test notes against it                                 *)
(* (components/PermanentMappingScene.tsx) and the tone generator           *)
(* (utils/soundGenerator.ts).                                              *)
(*                                                                         *)
(* Numbers.  A JavaScript number is a record: a finite number, an          *)
(* infinity or NaN.  Finite numbers are fixed-point integers: the slider   *)
(* parameters are in hundredths (0.3 is 30), tilt is in whole degrees,     *)
(* point coordinates are in two-hundredths (so that the half steps of the  *)
(* grid are integers), cosines and sines are in thousandths, times are in  *)
(* half seconds and frequencies in hundredths of a hertz.                  *)
(***************************************************************************)
EXTENDS Integers, Sequences, FiniteSets, TLC

\* ------------------------------------------------------------------------
\* Bounds of the model
\* ------------------------------------------------------------------------
MaxTs == 7
MaxRafId == 4

\* ------------------------------------------------------------------------
\* JavaScript values
\* ------------------------------------------------------------------------
Num(n) == [t |-> "finite", v |-> n]
PosInf == [t |-> "Infinity", v |-> 1]
NegInf == [t |-> "Infinity", v |-> -1]
NaN == [t |-> "NaN", v |-> 0]
JNull == [t |-> "null", v |-> 0]
Undefined == [t |-> "undefined", v |-> 0]
SomeString == [t |-> "string", v |-> 0]

IsFinite(a) == a.t = "finite"

\* typeof x === 'number'
TypeofNumber(a) == a.t \in {"finite", "Infinity", "NaN"}

\* a ?? b
Coalesce(a, b) == IF a.t \in {"null", "undefined"} THEN b ELSE a

Sign(n) == IF n < 0 THEN -1 ELSE 1

\* IEEE multiplication and addition, as far as finiteness goes
JMul(a, b) ==
  IF a.t = "NaN" \/ b.t = "NaN" THEN NaN
  ELSE IF IsFinite(a) /\ IsFinite(b) THEN Num(a.v * b.v)
  ELSE IF (IsFinite(a) /\ a.v = 0) \/ (IsFinite(b) /\ b.v = 0) THEN NaN
  ELSE [t |-> "Infinity", v |-> Sign(a.v) * Sign(b.v)]

JAdd(a, b) ==
  IF a.t = "NaN" \/ b.t = "NaN" THEN NaN
  ELSE IF IsFinite(a) /\ IsFinite(b) THEN Num(a.v + b.v)
  ELSE IF IsFinite(a) THEN b
  ELSE IF IsFinite(b) THEN a
  ELSE IF a.v = b.v THEN a ELSE NaN

JNeg(a) == IF a.t = "NaN" THEN NaN ELSE [t |-> a.t, v |-> -a.v]

JSub(a, b) == JAdd(a, JNeg(b))

\* rounding a product of a coordinate and a thousandth back to a coordinate
RoundMilli(a) ==
  IF IsFinite(a) THEN Num((a.v + 500) \div 1000) ELSE a

\* ------------------------------------------------------------------------
\* Trigonometry: Math.cos and Math.sin of (deg * Math.PI) / 180
\* ------------------------------------------------------------------------
TiltValues == {-45, 0, 30}

CosTable == [d \in TiltValues |-> CASE d = 0 -> 1000 [] d = 30 -> 866 [] d = -45 -> 707]
SinTable == [d \in TiltValues |-> CASE d = 0 -> 0 [] d = 30 -> 500 [] d = -45 -> -707]

\* Math.cos of a tilt in degrees, in thousandths; NaN for a non-finite angle
CosDeg(deg) == IF IsFinite(deg) THEN Num(CosTable[deg.v]) ELSE NaN
SinDeg(deg) == IF IsFinite(deg) THEN Num(SinTable[deg.v]) ELSE NaN

\* Rotate coordinates around the X axis
rotateYandZ(y, z, deg) ==
  [y |-> RoundMilli(JSub(JMul(y, CosDeg(deg)), JMul(z, SinDeg(deg)))),
   z |-> RoundMilli(JAdd(JMul(y, SinDeg(deg)), JMul(z, CosDeg(deg))))]

\* ------------------------------------------------------------------------
\* Types
\* ------------------------------------------------------------------------
STRINGS == <<"C", "G", "D", "A">>
POINTS_PER_STRING == 10

Arr(items) == [t |-> "array", items |-> items]

\* a CelloMapping-shaped object; a missing field holds Undefined
Mapping(points, cs, cx, cy, cz, hs, vs, tilt, version) ==
  [t |-> "object", points |-> points, celloScale |-> cs, centerX |-> cx,
   centerY |-> cy, centerZ |-> cz, hSpacing |-> hs, vSpacing |-> vs,
   tiltDeg |-> tilt, version |-> version]

\* the JavaScript null where a mapping is expected
NoMapping ==
  [t |-> "null", points |-> Undefined, celloScale |-> Undefined, centerX |-> Undefined,
   centerY |-> Undefined, centerZ |-> Undefined, hSpacing |-> Undefined,
   vSpacing |-> Undefined, tiltDeg |-> Undefined, version |-> "" ]

NoPosition == [t |-> "null", x |-> Undefined, y |-> Undefined, z |-> Undefined]
Position(x, y, z) == [t |-> "object", x |-> x, y |-> y, z |-> z]

\* an element of a points list is a point object (t is "object") or any other
\* JavaScript value
IsPoint(e) == e.t = "object"

\* reading a property of null or undefined throws a TypeError
PropertyReadThrows(e) == e.t \in {"null", "undefined"}

\* the outcome of a call that ended in a TypeError
Thrown == [t |-> "TypeError", x |-> Undefined, y |-> Undefined, z |-> Undefined]

\* ------------------------------------------------------------------------
\* JSON
\* ------------------------------------------------------------------------
\* JSON.stringify of a number: a non-finite number is written as null
StringifyNumber(a) == IF a.t \in {"Infinity", "NaN"} THEN JNull ELSE a

\* an over-large literal such as 1e999 in a JSON text
OverflowLiteral == [t |-> "literal1e999", v |-> 0]

\* JSON.parse of a number token: an over-large literal reads as Infinity
ParseNumber(a) == IF a.t = "literal1e999" THEN PosInf ELSE a

StringifyPoint(p) ==
  IF ~IsPoint(p) THEN StringifyNumber(p)
  ELSE [t |-> "object", string |-> p.string, index |-> p.index, x |-> StringifyNumber(p.x),
        y |-> StringifyNumber(p.y), z |-> StringifyNumber(p.z)]

ParsePoint(p) ==
  IF ~IsPoint(p) THEN ParseNumber(p)
  ELSE [t |-> "object", string |-> p.string, index |-> p.index, x |-> ParseNumber(p.x),
        y |-> ParseNumber(p.y), z |-> ParseNumber(p.z)]

MapItems(points, F(_)) ==
  IF points.t = "array"
  THEN Arr([i \in 1..Len(points.items) |-> F(points.items[i])])
  ELSE points

\* the text of a file: JSON with the given content, or not JSON at all
JsonText(content) == [kind |-> "json", content |-> content]
Garbage == [kind |-> "garbage", content |-> NoMapping]
NoFile == [kind |-> "nofile", content |-> NoMapping]

\* JSON.stringify(mapping, null, 2)
JSONstringify(m) ==
  IF m.t = "object"
  THEN JsonText(Mapping(MapItems(m.points, StringifyPoint), StringifyNumber(m.celloScale),
                        StringifyNumber(m.centerX), StringifyNumber(m.centerY),
                        StringifyNumber(m.centerZ), StringifyNumber(m.hSpacing),
                        StringifyNumber(m.vSpacing), StringifyNumber(m.tiltDeg), m.version))
  ELSE JsonText(m)

ParseThrows(text) == text.kind # "json"

\* JSON.parse(text), where it does not throw
JSONparse(text) ==
  LET m == text.content IN
  IF m.t = "object"
  THEN Mapping(MapItems(m.points, ParsePoint), ParseNumber(m.celloScale),
               ParseNumber(m.centerX), ParseNumber(m.centerY), ParseNumber(m.centerZ),
               ParseNumber(m.hSpacing), ParseNumber(m.vSpacing), ParseNumber(m.tiltDeg),
               m.version)
  ELSE m

\* ------------------------------------------------------------------------
\* utils/celloMapping.ts
\* ------------------------------------------------------------------------
loadMapping(cm) == cm

saveMapping(mapping) == mapping

clearMapping == NoMapping

\* hasMapping with the comparison against undefined instead of null
hasMappingUndefined(cm) == loadMapping(cm).t # "undefined"

hasMapping(cm) == loadMapping(cm) # NoMapping

\* points.find(...) from element i on, and the value getNotePosition returns
\* for what it finds: null if no point has the note's string and bin, and a
\* TypeError if the predicate reads a null or undefined element first
RECURSIVE FindFrom(_, _, _, _)
FindFrom(items, s, bin, i) ==
  IF i > Len(items) THEN NoPosition
  ELSE IF IsPoint(items[i])
  THEN IF items[i].string = s /\ items[i].index = bin
       THEN Position(items[i].x, items[i].y, items[i].z)
       ELSE FindFrom(items, s, bin, i + 1)
  ELSE IF PropertyReadThrows(items[i]) THEN Thrown
  ELSE FindFrom(items, s, bin, i + 1)

\* getNotePosition rotating the stored point by the stored tilt once more
getNotePositionRotated(cm, s, bin) ==
  LET mapping == loadMapping(cm) IN
  IF mapping.t # "object" \/ mapping.points.t # "array" THEN NoPosition
  ELSE LET point == FindFrom(mapping.points.items, s, bin, 1) IN
       IF point.t # "object" THEN point
       ELSE LET r == rotateYandZ(point.y, point.z, mapping.tiltDeg)
            IN Position(point.x, r.y, r.z)

getNotePosition(cm, s, bin) ==
  LET mapping == loadMapping(cm) IN
  IF mapping.t # "object" \/ mapping.points.t # "array" THEN NoPosition
  ELSE FindFrom(mapping.points.items, s, bin, 1)

getStringPositions(cm, s) ==
  LET mapping == loadMapping(cm) IN
  IF mapping.t # "object" \/ mapping.points.t # "array" THEN <<>>
  ELSE IF \E i \in 1..Len(mapping.points.items) : PropertyReadThrows(mapping.points.items[i])
  THEN <<Thrown>>
  ELSE LET stringPoints == SelectSeq(mapping.points.items,
                                     LAMBDA p : IsPoint(p) /\ p.string = s) IN
       [i \in 1..Len(stringPoints) |->
          Position(stringPoints[i].x, stringPoints[i].y, stringPoints[i].z)]

getCelloScale(cm) ==
  LET mapping == loadMapping(cm) IN
  IF mapping.t = "object" THEN Coalesce(mapping.celloScale, Num(500)) ELSE Num(500)

\* validateMapping without the check of tiltDeg
validateMappingNoTilt(mapping) ==
  /\ mapping.t = "object"
  /\ mapping.points.t = "array"
  /\ Len(mapping.points.items) > 0
  /\ TypeofNumber(mapping.celloScale)
  /\ TypeofNumber(mapping.centerX)
  /\ TypeofNumber(mapping.centerY)
  /\ TypeofNumber(mapping.centerZ)
  /\ TypeofNumber(mapping.hSpacing)
  /\ TypeofNumber(mapping.vSpacing)

validateMapping(mapping) ==
  /\ mapping.t = "object"
  /\ mapping.points.t = "array"
  /\ Len(mapping.points.items) > 0
  /\ TypeofNumber(mapping.celloScale)
  /\ TypeofNumber(mapping.centerX)
  /\ TypeofNumber(mapping.centerY)
  /\ TypeofNumber(mapping.centerZ)
  /\ TypeofNumber(mapping.hSpacing)
  /\ TypeofNumber(mapping.vSpacing)
  /\ TypeofNumber(mapping.tiltDeg)

\* ------------------------------------------------------------------------
\* State
\* ------------------------------------------------------------------------
VARIABLES
  currentMapping,  \* celloMapping.ts: the mapping held in memory
  activeScene,     \* App.tsx: the scene that is mounted
  params,          \* Debug Scene: the slider state
  localStorage,    \* the browser's localStorage entry 'stringPointDebugParams'
  download,        \* the text of the last downloaded cello-mapping.json
  lastOp,          \* the operation that produced this state
  chosenFile,      \* the text of the file picked in the last import
  importResult,    \* the value the last import promise resolved with
  promiseState,    \* "none", "resolved" or "rejected"
  alertMsg,        \* the alert raised by the last operation, "" if none
  currentTime,     \* Permanent Mapping scene: seconds shown, in half seconds
  isRunning,
  impactedNotes,
  soundEnabled,
  startRef,        \* <<>> for null, <<ts>> otherwise
  pauseOffset,
  rafId,           \* <<>> for undefined, <<id>> otherwise
  pendingRaf,      \* the browser's pending animation-frame callbacks (ids)
  nextRafId,
  clock,           \* the timestamp the next frame callback receives
  hasImpacted,     \* FallingNote3D: ids of the notes whose hasImpacted is true
  reported,        \* the notes whose impact was reported in the last step, in order
  tones,           \* the playNote calls made in the last step, in order
  fingerboardMapping,   \* Fingerboard Mapping scene: the fingerboard notes
  selectedNote,         \* <<>> for null, <<note>> otherwise
  selectedMusicalNote,  \* <<>> for null, <<musicalNote>> otherwise
  stringOptions,
  showAllNotes,
  filterString,
  sheetMusic,           \* Sheet Music scene: the notes with their string choices
  sheetCurrentTime,     \* Sheet Music scene: currentTime, in half seconds
  isPlaying,
  sheetSelectedNote,    \* Sheet Music scene: selectedNote, <<>> for null
  showStringChoices,
  animationRef          \* <<>> for undefined, <<id>> otherwise

fingerboardVars == <<fingerboardMapping, selectedNote, selectedMusicalNote, stringOptions,
                     showAllNotes, filterString>>

sheetVars == <<sheetMusic, sheetCurrentTime, isPlaying, sheetSelectedNote,
               showStringChoices, animationRef>>

appVars == <<currentMapping, activeScene, params, localStorage, download>>

playVars == <<currentTime, isRunning, impactedNotes, soundEnabled, startRef, pauseOffset,
              rafId, hasImpacted, reported, tones>>

browserVars == <<pendingRaf, nextRafId, clock>>

vars == <<currentMapping, activeScene, params, localStorage, download, lastOp, chosenFile,
          importResult, promiseState, alertMsg, currentTime, isRunning, impactedNotes,
          soundEnabled, startRef, pauseOffset, rafId, pendingRaf, nextRafId, clock,
          hasImpacted, reported, tones, fingerboardVars, sheetVars>>

\* ------------------------------------------------------------------------
\* components/StringPointDebugScene.tsx
\* ------------------------------------------------------------------------
Params(cs, ps, cx, cy, cz, hs, vs, tilt) ==
  [celloScale |-> cs, pointSize |-> ps, centerX |-> cx, centerY |-> cy, centerZ |-> cz,
   hSpacing |-> hs, vSpacing |-> vs, tiltDeg |-> tilt]

MapParams(p, F(_)) ==
  Params(F(p.celloScale), F(p.pointSize), F(p.centerX), F(p.centerY), F(p.centerZ),
         F(p.hSpacing), F(p.vSpacing), F(p.tiltDeg))

\* the useState defaults; pointSize 0.025 is in thousandths
DefaultParams == Params(Num(500), Num(25), Num(0), Num(0), Num(-50), Num(30), Num(33), Num(0))

NoEntry == [present |-> FALSE, value |-> MapParams(DefaultParams, LAMBDA a : Undefined)]

\* localStorage.setItem(STORAGE_KEY, JSON.stringify(params))
saveParams(p) == [present |-> TRUE, value |-> MapParams(p, StringifyNumber)]

\* JSON.parse(localStorage.getItem(STORAGE_KEY)), null when there is no entry
loadParams(ls) ==
  IF ls.present THEN MapParams(ls.value, ParseNumber) ELSE MapParams(ls.value, LAMBDA a : JNull)

\* the useState initialisers: loaded?.field ?? default
InitialParams(ls) ==
  LET loaded == loadParams(ls) IN
  Params(Coalesce(loaded.celloScale, DefaultParams.celloScale),
         Coalesce(loaded.pointSize, DefaultParams.pointSize),
         Coalesce(loaded.centerX, DefaultParams.centerX),
         Coalesce(loaded.centerY, DefaultParams.centerY),
         Coalesce(loaded.centerZ, DefaultParams.centerZ),
         Coalesce(loaded.hSpacing, DefaultParams.hSpacing),
         Coalesce(loaded.vSpacing, DefaultParams.vSpacing),
         Coalesce(loaded.tiltDeg, DefaultParams.tiltDeg))

\* the grid the Debug Scene draws: string sIdx, point i
GridPoint(p, sIdx, i) ==
  LET x == JAdd(JMul(Num(2), p.centerX), JMul(Num(2 * sIdx - 3), p.hSpacing))
      y == JAdd(JMul(Num(2), p.centerY), JMul(Num(2 * i - (POINTS_PER_STRING - 1)), p.vSpacing))
      r == rotateYandZ(y, JMul(Num(2), p.centerZ), p.tiltDeg)
  IN [t |-> "object", string |-> STRINGS[sIdx + 1], index |-> i, x |-> x, y |-> r.y, z |-> r.z]

points(p) ==
  Arr([k \in 1..(Len(STRINGS) * POINTS_PER_STRING) |->
         GridPoint(p, (k - 1) \div POINTS_PER_STRING, (k - 1) % POINTS_PER_STRING)])

\* the mapping handleExport builds
ExportedMapping(p) ==
  Mapping(points(p), p.celloScale, p.centerX, p.centerY, p.centerZ, p.hSpacing,
          p.vSpacing, p.tiltDeg, "1.0")

\* exportMappingToFile: the text written to cello-mapping.json
exportMappingToFile(mapping) == JSONstringify(mapping)

\* importMappingFromFile saving the parsed value before validating it
importMappingFromFileSaveFirst(cm, file) ==
  IF file.kind = "nofile"
  THEN [mapping |-> cm, result |-> NoMapping, alert |-> ""]
  ELSE IF ParseThrows(file)
  THEN [mapping |-> cm, result |-> NoMapping, alert |-> "Error reading file"]
  ELSE LET mapping == JSONparse(file) IN
       IF validateMapping(mapping)
       THEN [mapping |-> saveMapping(mapping), result |-> mapping, alert |-> ""]
       ELSE [mapping |-> saveMapping(mapping), result |-> NoMapping,
             alert |-> "Invalid mapping file format!"]

\* importMappingFromFile with the given file picked (NoFile: none picked):
\* the mapping left in memory, the value resolved and the alert raised
importMappingFromFile(cm, file) ==
  IF file.kind = "nofile"
  THEN [mapping |-> cm, result |-> NoMapping, alert |-> ""]
  ELSE IF ParseThrows(file)
  THEN [mapping |-> cm, result |-> NoMapping, alert |-> "Error reading file"]
  ELSE LET mapping == JSONparse(file) IN
       IF validateMapping(mapping)
       THEN [mapping |-> saveMapping(mapping), result |-> mapping, alert |-> ""]
       ELSE [mapping |-> cm, result |-> NoMapping, alert |-> "Invalid mapping file format!"]

\* the slider positions the model moves between
SliderValues ==
  [celloScale |-> {Num(500)}, pointSize |-> {Num(25)}, centerX |-> {Num(0)},
   centerY |-> {Num(0)}, centerZ |-> {Num(-50)}, hSpacing |-> {Num(30)},
   vSpacing |-> {Num(33), Num(50)}, tiltDeg |-> {Num(d) : d \in TiltValues}]

\* files a user may have on disk besides the downloaded one
OnePoint ==
  Arr(<<[t |-> "object", string |-> "C", index |-> 0, x |-> Num(0), y |-> Num(0), z |-> Num(0)]>>)

UserFiles ==
  { Garbage,
    JsonText(NoMapping),
    JsonText(Mapping(OnePoint, Num(500), Num(0), Num(0), Num(-50), Num(30), Num(33), Undefined, "1.0")),
    JsonText(Mapping(Arr(<<>>), Num(500), Num(0), Num(0), Num(-50), Num(30), Num(33), Num(0), "1.0")),
    JsonText(Mapping(JNull, Num(500), Num(0), Num(0), Num(-50), Num(30), Num(33), Num(0), "1.0")),
    JsonText(Mapping(OnePoint, SomeString, Num(0), Num(0), Num(-50), Num(30), Num(33), Num(0), "1.0")),
    JsonText(Mapping(OnePoint, Num(500), Num(0), Num(0), Num(-50), Num(30), Num(33), Num(0), "1.0")),
    JsonText(Mapping(points(DefaultParams), Num(500), Num(0), Num(0), Num(-50), Num(30), Num(33),
                     OverflowLiteral, "1.0")) }

\* ------------------------------------------------------------------------
\* utils/soundGenerator.ts
\* ------------------------------------------------------------------------
\* Base frequencies for each string, in hundredths of a hertz
baseFrequencies == [C |-> 6541, G |-> 9800, D |-> 14683, A |-> 22000]

\* Math.pow(2, k / 12) for k in 0..11, in ten-thousandths
SemitoneRatio ==
  <<10000, 10595, 11225, 11892, 12599, 13348, 14142, 14983, 15874, 16818, 17818, 18877>>

RECURSIVE Pow2(_)
Pow2(n) == IF n = 0 THEN 1 ELSE 2 * Pow2(n - 1)

getNoteFrequency(string, position) ==
  LET baseFreq == IF string \in DOMAIN baseFrequencies THEN baseFrequencies[string] ELSE 22000
  IN (baseFreq * SemitoneRatio[(position % 12) + 1] * Pow2(position \div 12) + 5000) \div 10000

\* the call soundGenerator.playNote(string, position, 0.3) and the tone it asks for
playNote(string, position) ==
  [string |-> string, position |-> position, frequency |-> getNoteFrequency(string, position)]

\* ------------------------------------------------------------------------
\* utils/fingerboardMapper.ts
\* ------------------------------------------------------------------------
\* Standard cello tuning frequencies, in thousandths of a hertz, in key order
CELLO_TUNING == [C |-> 65410, G |-> 98000, D |-> 146830, A |-> 220000]
TuningKeys == <<"C", "G", "D", "A">>

NOTE_NAMES == <<"C", "C#", "D", "D#", "E", "F", "F#", "G", "G#", "A", "A#", "B">>

\* the last fingered position of a string
LastPosition == 12

\* b * r / 10000 within 32 bits
MulRatio(b, r) == (b \div 10000) * r + ((b % 10000) * r) \div 10000

\* baseFreq * Math.pow(2, position / 12)
PositionFrequency(baseFreq, position) ==
  MulRatio(baseFreq, SemitoneRatio[(position % 12) + 1]) * Pow2(position \div 12)

\* Math.pow(2, (k - 0.5) / 12) for k in 0..12, in ten-thousandths: the ratios
\* at which Math.round(12 * Math.log2(r)) steps from k - 1 to k
HalfStepRatio ==
  <<9715, 10293, 10905, 11554, 12241, 12968, 13740, 14557, 15422, 16339, 17311, 18340, 19431>>

\* Math.round(12 * Math.log2(frequency / 440)) = n
RoundsTo(frequency, n) ==
  LET o == n \div 12
      k == n % 12
      lo == MulRatio(440000, HalfStepRatio[k + 1])
      hi == MulRatio(440000, HalfStepRatio[k + 2])
      f == IF o < 0 THEN frequency * Pow2(-o) ELSE frequency
      s == IF o > 0 THEN Pow2(o) ELSE 1
  IN lo * s <= f /\ f < hi * s

SemitonesFromA4(frequency) == CHOOSE n \in -48..12 : RoundsTo(frequency, n)

\* the JavaScript remainder a % b, which takes the sign of a
JsRem(a, b) == IF a >= 0 THEN a % b ELSE -((-a) % b)

\* getNoteFromFrequency with the octave truncated toward zero instead of floored
getNoteFromFrequencyTrunc(frequency) ==
  LET semitones == SemitonesFromA4(frequency)
      totalSemitones == 9 + semitones
      octave == 4 + Sign(totalSemitones) * ((Sign(totalSemitones) * totalSemitones) \div 12)
      noteIndex == (JsRem(totalSemitones, 12) + 12) % 12
  IN [note |-> NOTE_NAMES[noteIndex + 1], octave |-> octave, frequency |-> frequency]

getNoteFromFrequency(frequency) ==
  LET semitones == SemitonesFromA4(frequency)
      totalSemitones == 9 + semitones
      octave == 4 + (totalSemitones \div 12)
      noteIndex == (JsRem(totalSemitones, 12) + 12) % 12
  IN [note |-> NOTE_NAMES[noteIndex + 1], octave |-> octave, frequency |-> frequency]

FingerboardNote(string, position, musicalNote, isOpenString) ==
  [string |-> string, position |-> position, musicalNote |-> musicalNote,
   isOpenString |-> isOpenString]

\* the notes one pass of the forEach pushes: the open string, then positions 1..12
StringNotes(string) ==
  LET baseFreq == CELLO_TUNING[string] IN
  <<FingerboardNote(string, 0, getNoteFromFrequency(baseFreq), TRUE)>> \o
  [position \in 1..LastPosition |->
     FingerboardNote(string, position,
                     getNoteFromFrequency(PositionFrequency(baseFreq, position)), FALSE)]

RECURSIVE NotesFrom(_)
NotesFrom(i) ==
  IF i > Len(TuningKeys) THEN <<>> ELSE StringNotes(TuningKeys[i]) \o NotesFrom(i + 1)

generateFingerboardMapping == [notes |-> NotesFrom(1), version |-> "1.0"]

Difficulty(fingerboardNote) ==
  IF fingerboardNote.isOpenString THEN "easy"
  ELSE IF fingerboardNote.position <= 4 THEN "medium"
  ELSE "hard"

StringOption(fingerboardNote) ==
  [string |-> fingerboardNote.string, position |-> fingerboardNote.position,
   isOpenString |-> fingerboardNote.isOpenString, difficulty |-> Difficulty(fingerboardNote)]

difficultyOrder == [easy |-> 0, medium |-> 1, hard |-> 2]

\* Array.prototype.sort with the difficulty comparator: a stable insertion
InsertOption(sorted, option) ==
  LET notAfter == SelectSeq(sorted, LAMBDA o :
                    difficultyOrder[o.difficulty] <= difficultyOrder[option.difficulty])
      after == SelectSeq(sorted, LAMBDA o :
                    difficultyOrder[o.difficulty] > difficultyOrder[option.difficulty])
  IN notAfter \o <<option>> \o after

RECURSIVE SortOptions(_)
SortOptions(options) ==
  IF options = <<>> THEN <<>>
  ELSE InsertOption(SortOptions(SubSeq(options, 1, Len(options) - 1)), options[Len(options)])

\* getStringOptionsForNote returning the options in generation order, unsorted
getStringOptionsForNoteUnsorted(musicalNote) ==
  LET matching == SelectSeq(generateFingerboardMapping.notes, LAMBDA fingerboardNote :
                    /\ fingerboardNote.musicalNote.note = musicalNote.note
                    /\ fingerboardNote.musicalNote.octave = musicalNote.octave)
  IN [i \in 1..Len(matching) |-> StringOption(matching[i])]

getStringOptionsForNote(musicalNote) ==
  LET matching == SelectSeq(generateFingerboardMapping.notes, LAMBDA fingerboardNote :
                    /\ fingerboardNote.musicalNote.note = musicalNote.note
                    /\ fingerboardNote.musicalNote.octave = musicalNote.octave)
  IN SortOptions([i \in 1..Len(matching) |-> StringOption(matching[i])])

\* ------------------------------------------------------------------------
\* components/PermanentMappingScene.tsx
\* ------------------------------------------------------------------------
Digits == <<"0", "1", "2", "3", "4", "5", "6", "7", "8", "9">>

\* Number.prototype.toString for a natural number
RECURSIVE NumberToString(_)
NumberToString(n) == IF n < 10 THEN Digits[n + 1] ELSE NumberToString(n \div 10) \o Digits[(n % 10) + 1]

\* the note pushed by one pass of the inner loop; duration 2 s
TestNote(id, string, bin, startTime) ==
  [id |-> NumberToString(id), string |-> string, bin |-> bin, startTime |-> startTime, duration |-> 4]

\* the start time advanced by the duration instead of by 1.5 s
NextStartTimeByDuration(startTime) == startTime + 4

\* startTime += 1.5
NextStartTime(startTime) == startTime + 3

RECURSIVE GenerateLoop(_, _, _, _, _)
GenerateLoop(notes, id, startTime, sIdx, bin) ==
  IF sIdx > Len(STRINGS) THEN notes
  ELSE IF bin >= POINTS_PER_STRING THEN GenerateLoop(notes, id, startTime, sIdx + 1, 0)
  ELSE GenerateLoop(Append(notes, TestNote(id, STRINGS[sIdx], bin, startTime)),
                    id + 1, NextStartTime(startTime), sIdx, bin + 1)

generateAllTestNotes == GenerateLoop(<<>>, 1, 0, 1, 0)

TEST_NOTES == generateAllTestNotes

\* a <= b on JavaScript numbers
JLe(a, b) ==
  IF a.t = "NaN" \/ b.t = "NaN" THEN FALSE
  ELSE IF IsFinite(a) /\ IsFinite(b) THEN a.v <= b.v
  ELSE IF IsFinite(a) THEN b.v > 0
  ELSE IF IsFinite(b) THEN a.v < 0
  ELSE a.v <= b.v

\* FallingNote3D: does this render report the note's impact?
\* fallDistance 10 is 2000 two-hundredths; fallSpeed 5 per second is 500 per half second
isImpact(cm, time, note, impactedBefore) ==
  LET position == getNotePosition(cm, note.string, note.bin)
      elapsed == time - note.startTime
      cosT == CosDeg(loadMapping(cm).tiltDeg)
      startY == JAdd(position.y, RoundMilli(JMul(Num(2000), cosT)))
      currentY == JSub(startY, RoundMilli(JMul(Num(elapsed * 500), cosT)))
  IN /\ position.t = "object"
     /\ ~(elapsed < -4)
     /\ JLe(currentY, position.y)
     /\ note.id \notin impactedBefore

\* handleNoteImpact playing the tone whatever the sound toggle says
handleNoteImpactAlwaysPlays(impacted, sound, note) ==
  [impactedNotes |-> impacted \cup {note.id},
   tones |-> <<playNote(note.string, note.bin)>>]

\* handleNoteImpact: the new impactedNotes and the tones requested
handleNoteImpact(impacted, sound, note) ==
  [impactedNotes |-> impacted \cup {note.id},
   tones |-> IF sound THEN <<playNote(note.string, note.bin)>> ELSE <<>>]

RECURSIVE ImpactAll(_, _, _, _, _)
ImpactAll(notes, i, impacted, sound, tonesSoFar) ==
  IF i > Len(notes) THEN [impactedNotes |-> impacted, tones |-> tonesSoFar]
  ELSE LET r == handleNoteImpact(impacted, sound, notes[i])
       IN ImpactAll(notes, i + 1, r.impactedNotes, sound, tonesSoFar \o r.tones)

\* one render of the Permanent Mapping scene: every FallingNote3D is evaluated
Rerender(cm, time, impacted, sound) ==
  LET rep == SelectSeq(TEST_NOTES, LAMBDA n : isImpact(cm, time, n, hasImpacted))
      r == ImpactAll(rep, 1, impacted, sound, <<>>)
  IN /\ reported' = rep
     /\ tones' = r.tones
     /\ impactedNotes' = r.impactedNotes
     /\ hasImpacted' = hasImpacted \cup {rep[i].id : i \in 1..Len(rep)}

\* a step that is not an import: no file is picked, no promise settles, no alert
NoImport ==
  /\ chosenFile' = NoFile
  /\ importResult' = NoMapping
  /\ promiseState' = "none"
  /\ alertMsg' = ""

\* a step in which the Permanent Mapping scene does not render
NoRender ==
  /\ reported' = <<>>
  /\ tones' = <<>>
  /\ UNCHANGED <<impactedNotes, hasImpacted>>

\* an effect cleanup that cancels nothing
CleanupKeepsCallback(pending, id) == pending

\* the effect cleanup: if (rafId.current) cancelAnimationFrame(rafId.current)
CleanupCancel(pending, id) == IF id # <<>> THEN pending \ {id[1]} ELSE pending

\* togglePlay: if (rafId.current) cancelAnimationFrame(rafId.current)
PauseCancel(pending, id) == IF id # <<>> THEN pending \ {id[1]} ELSE pending

\* !startRef.current
Falsy(ref) == ref = <<>> \/ ref[1] = 0

\* the Permanent Mapping scene's state right after mounting (and while unmounted)
FreshPlayState ==
  /\ currentTime' = 0
  /\ isRunning' = FALSE
  /\ soundEnabled' = TRUE
  /\ startRef' = <<>>
  /\ pauseOffset' = 0
  /\ rafId' = <<>>

\* ------------------------------------------------------------------------
\* Actions of the Debug Scene
\* ------------------------------------------------------------------------
\* a slider's onChange, with the effect that saves the parameters
SetParam ==
  /\ UNCHANGED <<fingerboardVars, sheetVars>>
  /\ activeScene = "debug"
  /\ \E f \in DOMAIN SliderValues : \E v \in SliderValues[f] :
       /\ params[f] # v
       /\ params' = [params EXCEPT ![f] = v]
  /\ localStorage' = saveParams(params')
  /\ lastOp' = "setParam"
  /\ NoImport
  /\ NoRender
  /\ UNCHANGED <<currentMapping, activeScene, download, currentTime, isRunning, soundEnabled, startRef,
                 pauseOffset, rafId, pendingRaf, nextRafId, clock>>

handleExport ==
  /\ UNCHANGED <<fingerboardVars, sheetVars>>
  /\ activeScene = "debug"
  /\ LET mapping == ExportedMapping(params) IN
       /\ currentMapping' = saveMapping(mapping)
       /\ download' = exportMappingToFile(mapping)
  /\ lastOp' = "export"
  /\ NoImport
  /\ NoRender
  /\ UNCHANGED <<activeScene, params, localStorage, currentTime, isRunning, soundEnabled, startRef, pauseOffset, rafId,
                 pendingRaf, nextRafId, clock>>

\* the files the user can pick from
Pickable == {NoFile} \cup UserFiles \cup {download}

\* the Debug Scene's handleImport
handleImport ==
  /\ UNCHANGED <<fingerboardVars, sheetVars>>
  /\ activeScene = "debug"
  /\ \E file \in Pickable :
       LET r == importMappingFromFile(currentMapping, file) IN
       /\ chosenFile' = file
       /\ currentMapping' = r.mapping
       /\ importResult' = r.result
       /\ alertMsg' = r.alert
       /\ promiseState' = "resolved"
       /\ IF r.result # NoMapping
          THEN params' = [params EXCEPT
                    !.celloScale = Coalesce(r.result.celloScale, @),
                    !.centerX = Coalesce(r.result.centerX, @),
                    !.centerY = Coalesce(r.result.centerY, @),
                    !.centerZ = Coalesce(r.result.centerZ, @),
                    !.hSpacing = Coalesce(r.result.hSpacing, @),
                    !.vSpacing = Coalesce(r.result.vSpacing, @),
                    !.tiltDeg = Coalesce(r.result.tiltDeg, @)]
          ELSE UNCHANGED params
  /\ localStorage' = saveParams(params')
  /\ lastOp' = "import"
  /\ NoRender
  /\ UNCHANGED <<activeScene, download, currentTime, isRunning, soundEnabled, startRef,
                 pauseOffset, rafId, pendingRaf, nextRafId, clock>>

\* ------------------------------------------------------------------------
\* Actions of the Permanent Mapping scene
\* ------------------------------------------------------------------------
handleImportMapping ==
  /\ UNCHANGED <<fingerboardVars, sheetVars>>
  /\ activeScene = "mapping"
  /\ \E file \in Pickable :
       LET r == importMappingFromFile(currentMapping, file) IN
       /\ chosenFile' = file
       /\ currentMapping' = r.mapping
       /\ importResult' = r.result
       /\ alertMsg' = r.alert
       /\ promiseState' = "resolved"
       /\ IF r.result # NoMapping
          THEN Rerender(currentMapping', currentTime, impactedNotes, soundEnabled)
          ELSE NoRender
  /\ lastOp' = "import"
  /\ UNCHANGED <<activeScene, params, localStorage, download, currentTime, isRunning,
                 soundEnabled, startRef, pauseOffset, rafId, pendingRaf, nextRafId, clock>>

\* Play / pause toggle, with the render and the RAF effect that follow it
togglePlay ==
  /\ UNCHANGED <<fingerboardVars, sheetVars>>
  /\ activeScene = "mapping"
  /\ IF isRunning
     THEN /\ isRunning' = FALSE
          /\ pauseOffset' = currentTime
          /\ pendingRaf' = CleanupCancel(PauseCancel(pendingRaf, rafId), rafId)
          /\ lastOp' = "pause"
          /\ UNCHANGED <<startRef, rafId, nextRafId>>
     ELSE /\ nextRafId <= MaxRafId
          /\ startRef' = <<>>
          /\ isRunning' = TRUE
          /\ rafId' = <<nextRafId>>
          /\ pendingRaf' = pendingRaf \cup {nextRafId}
          /\ nextRafId' = nextRafId + 1
          /\ lastOp' = "play"
          /\ UNCHANGED pauseOffset
  /\ NoImport
  /\ Rerender(currentMapping, currentTime, impactedNotes, soundEnabled)
  /\ UNCHANGED <<currentMapping, activeScene, params, localStorage, download, currentTime, soundEnabled, clock>>

resetAnimation ==
  /\ UNCHANGED <<fingerboardVars, sheetVars>>
  /\ activeScene = "mapping"
  /\ currentTime' = 0
  /\ pauseOffset' = 0
  /\ startRef' = <<>>
  /\ lastOp' = "reset"
  /\ NoImport
  /\ Rerender(currentMapping, 0, {}, soundEnabled)
  /\ UNCHANGED <<currentMapping, activeScene, params, localStorage, download, isRunning, soundEnabled, rafId,
                 pendingRaf, nextRafId, clock>>

\* the sound toggle button
toggleSound ==
  /\ UNCHANGED <<fingerboardVars, sheetVars>>
  /\ activeScene = "mapping"
  /\ soundEnabled' = ~soundEnabled
  /\ lastOp' = "sound"
  /\ NoImport
  /\ Rerender(currentMapping, currentTime, impactedNotes, soundEnabled')
  /\ UNCHANGED <<currentMapping, activeScene, params, localStorage, download, currentTime, isRunning, startRef,
                 pauseOffset, rafId, pendingRaf, nextRafId, clock>>

\* the browser runs a pending animation-frame callback with timestamp ts
raf ==
  /\ UNCHANGED <<fingerboardVars, sheetVars>>
  /\ nextRafId <= MaxRafId
  /\ \E id \in pendingRaf : \E ts \in (clock + 1)..MaxTs :
       LET start == IF Falsy(startRef) THEN ts - pauseOffset ELSE startRef[1] IN
       /\ clock' = ts
       /\ startRef' = <<start>>
       /\ currentTime' = ts - start
       /\ rafId' = <<nextRafId>>
       /\ pendingRaf' = (pendingRaf \ {id}) \cup {nextRafId}
       /\ nextRafId' = nextRafId + 1
  /\ lastOp' = "frame"
  /\ NoImport
  /\ Rerender(currentMapping, currentTime', impactedNotes, soundEnabled)
  /\ UNCHANGED <<currentMapping, activeScene, params, localStorage, download, isRunning, soundEnabled, pauseOffset>>

\* ------------------------------------------------------------------------
\* Actions of the App and of the mapping module
\* ------------------------------------------------------------------------
\* App.tsx: a scene selector button unmounts the active scene and mounts another
setActiveScene ==
  /\ UNCHANGED <<fingerboardVars, sheetVars>>
  /\ \E s \in {"debug", "mapping"} :
       /\ s # activeScene
       /\ activeScene' = s
  /\ pendingRaf' = IF activeScene = "mapping" /\ isRunning
                   THEN CleanupCancel(pendingRaf, rafId) ELSE pendingRaf
  /\ FreshPlayState
  /\ IF activeScene' = "debug"
     THEN /\ params' = InitialParams(localStorage)
          /\ localStorage' = saveParams(params')
          /\ reported' = <<>>
          /\ tones' = <<>>
          /\ impactedNotes' = {}
          /\ hasImpacted' = {}
     ELSE /\ params' = DefaultParams
          /\ UNCHANGED localStorage
          /\ LET rep == SelectSeq(TEST_NOTES, LAMBDA n : isImpact(currentMapping, 0, n, {}))
                 r == ImpactAll(rep, 1, {}, TRUE, <<>>)
             IN /\ reported' = rep
                /\ tones' = r.tones
                /\ impactedNotes' = r.impactedNotes
                /\ hasImpacted' = {rep[i].id : i \in 1..Len(rep)}
  /\ lastOp' = "mount"
  /\ NoImport
  /\ UNCHANGED <<currentMapping, download, nextRafId, clock>>

\* celloMapping.ts: clearMapping()
ClearMapping ==
  /\ UNCHANGED <<fingerboardVars, sheetVars>>
  /\ currentMapping' = clearMapping
  /\ lastOp' = "clear"
  /\ NoImport
  /\ NoRender
  /\ UNCHANGED <<activeScene, params, localStorage, download, currentTime, isRunning, soundEnabled, startRef,
                 pauseOffset, rafId, pendingRaf, nextRafId, clock>>

\* ------------------------------------------------------------------------
\* components/FingerboardMappingScene.tsx
\* ------------------------------------------------------------------------
MusicalNote(note, octave, frequency) == [note |-> note, octave |-> octave, frequency |-> frequency]

\* Sample musical notes, frequencies in thousandths of a hertz
SAMPLE_NOTES ==
  << MusicalNote("C", 2, 65410), MusicalNote("D", 2, 73420), MusicalNote("E", 2, 82410),
     MusicalNote("F", 2, 87310), MusicalNote("G", 2, 98000), MusicalNote("A", 2, 110000),
     MusicalNote("B", 2, 123470), MusicalNote("C", 3, 130810), MusicalNote("D", 3, 146830),
     MusicalNote("E", 3, 164810), MusicalNote("F", 3, 174610), MusicalNote("G", 3, 196000),
     MusicalNote("A", 3, 220000), MusicalNote("B", 3, 246940), MusicalNote("C", 4, 261630) >>

\* FingerboardNoteVisual renders a mesh (TRUE) or nothing (FALSE)
FingerboardNoteVisual(cm, note) == getNotePosition(cm, note.string, note.position).t = "object"

\* the predicate of filteredNotes
PassesFilter(note, showAll, filter) ==
  /\ ~(filter # "all" /\ note.string # filter)
  /\ ~(~showAll /\ ~note.isOpenString)

filteredNotes(fm, showAll, filter) ==
  SelectSeq(fm.notes, LAMBDA note : PassesFilter(note, showAll, filter))

\* a fingerboard note is drawn in the canvas: it is one of filteredNotes and
\* its FingerboardNoteVisual renders a mesh
Drawn(cm, note, showAll, filter) ==
  PassesFilter(note, showAll, filter) /\ FingerboardNoteVisual(cm, note)

\* the effect that follows a change of selectedMusicalNote
OptionsEffect(selMus) ==
  IF selMus # <<>> THEN getStringOptionsForNote(selMus[1]) ELSE <<>>

\* handleStringOptionSelect replacing the note of every entry of the option's string
handleStringOptionSelectByString(fm, selNote, selMus, option) ==
  IF selMus # <<>>
  THEN [fingerboardMapping |->
          [fm EXCEPT !.notes = [i \in 1..Len(fm.notes) |->
             IF fm.notes[i].string = option.string
             THEN [fm.notes[i] EXCEPT !.musicalNote = selMus[1]]
             ELSE fm.notes[i]]],
        selectedNote |-> <<>>,
        selectedMusicalNote |-> <<>>]
  ELSE [fingerboardMapping |-> fm, selectedNote |-> selNote, selectedMusicalNote |-> selMus]

\* handleStringOptionSelect: the state it leaves
handleStringOptionSelect(fm, selNote, selMus, option) ==
  IF selMus # <<>>
  THEN [fingerboardMapping |->
          [fm EXCEPT !.notes = [i \in 1..Len(fm.notes) |->
             IF fm.notes[i].string = option.string /\ fm.notes[i].position = option.position
             THEN [fm.notes[i] EXCEPT !.musicalNote = selMus[1]]
             ELSE fm.notes[i]]],
        selectedNote |-> <<>>,
        selectedMusicalNote |-> <<>>]
  ELSE [fingerboardMapping |-> fm, selectedNote |-> selNote, selectedMusicalNote |-> selMus]

\* the notes and samples the model clicks, and the filters it selects
ClickStrings == {"C", "G"}
ClickPositions == {0, 7}
PickedSamples == {SAMPLE_NOTES[1], SAMPLE_NOTES[5]}
FilterChoices == {"all", "C", "G", "D", "A"}

\* the Show All Positions / Show Open Strings Only button
toggleShowAllNotes ==
  /\ activeScene = "fingerboard"
  /\ showAllNotes' = ~showAllNotes
  /\ lastOp' = "show"
  /\ NoImport
  /\ UNCHANGED <<fingerboardMapping, selectedNote, selectedMusicalNote, stringOptions, filterString>>
  /\ UNCHANGED <<appVars, playVars, browserVars, sheetVars>>

\* the string filter
setFilterString ==
  /\ activeScene = "fingerboard"
  /\ \E f \in FilterChoices \ {filterString} : filterString' = f
  /\ lastOp' = "filter"
  /\ NoImport
  /\ UNCHANGED <<fingerboardMapping, selectedNote, selectedMusicalNote, stringOptions, showAllNotes>>
  /\ UNCHANGED <<appVars, playVars, browserVars, sheetVars>>

\* a click on a drawn fingerboard note, and the options effect
handleNoteClick ==
  /\ activeScene = "fingerboard"
  /\ \E i \in 1..Len(fingerboardMapping.notes) :
       /\ fingerboardMapping.notes[i].string \in ClickStrings
       /\ fingerboardMapping.notes[i].position \in ClickPositions
       /\ Drawn(currentMapping, fingerboardMapping.notes[i], showAllNotes, filterString)
       /\ selectedNote' = <<fingerboardMapping.notes[i]>>
       /\ selectedMusicalNote' = <<fingerboardMapping.notes[i].musicalNote>>
  /\ stringOptions' = OptionsEffect(selectedMusicalNote')
  /\ lastOp' = "click"
  /\ NoImport
  /\ UNCHANGED <<fingerboardMapping, showAllNotes, filterString>>
  /\ UNCHANGED <<appVars, playVars, browserVars, sheetVars>>

\* a click on one of the sample note buttons, and the options effect
selectSampleNote ==
  /\ activeScene = "fingerboard"
  /\ \E note \in PickedSamples : selectedMusicalNote' = <<note>>
  /\ stringOptions' = OptionsEffect(selectedMusicalNote')
  /\ lastOp' = "sample"
  /\ NoImport
  /\ UNCHANGED <<fingerboardMapping, selectedNote, showAllNotes, filterString>>
  /\ UNCHANGED <<appVars, playVars, browserVars, sheetVars>>

\* a click on one of the string option buttons, shown while a musical note is
\* selected and has options, and the options effect
clickStringOption ==
  /\ activeScene = "fingerboard"
  /\ selectedMusicalNote # <<>>
  /\ \E i \in 1..Len(stringOptions) :
       LET r == handleStringOptionSelect(fingerboardMapping, selectedNote,
                                         selectedMusicalNote, stringOptions[i]) IN
       /\ fingerboardMapping' = r.fingerboardMapping
       /\ selectedNote' = r.selectedNote
       /\ selectedMusicalNote' = r.selectedMusicalNote
  /\ stringOptions' = OptionsEffect(selectedMusicalNote')
  /\ lastOp' = "option"
  /\ NoImport
  /\ UNCHANGED <<showAllNotes, filterString>>
  /\ UNCHANGED <<appVars, playVars, browserVars, sheetVars>>

\* ------------------------------------------------------------------------
\* components/SheetMusicScene.tsx
\* ------------------------------------------------------------------------
\* a sheet note; times in half seconds, every duration 1 s
SheetMusicNote(id, musicalNote, startTime) ==
  [id |-> id, musicalNote |-> musicalNote, startTime |-> startTime, duration |-> 2]

SAMPLE_SHEET_MUSIC ==
  << SheetMusicNote("1", MusicalNote("C", 3, 130810), 0),
     SheetMusicNote("2", MusicalNote("D", 3, 146830), 2),
     SheetMusicNote("3", MusicalNote("E", 3, 164810), 4),
     SheetMusicNote("4", MusicalNote("F", 3, 174610), 6),
     SheetMusicNote("5", MusicalNote("G", 3, 196000), 8),
     SheetMusicNote("6", MusicalNote("A", 3, 220000), 10),
     SheetMusicNote("7", MusicalNote("B", 3, 246940), 12),
     SheetMusicNote("8", MusicalNote("C", 4, 261630), 14) >>

\* the mount effect: every sample note with its string options and no choice
\* (<<>> for an absent selectedString or selectedPosition)
NoteWithStringChoice(note) ==
  [id |-> note.id, musicalNote |-> note.musicalNote, startTime |-> note.startTime,
   duration |-> note.duration, stringOptions |-> getStringOptionsForNote(note.musicalNote),
   selectedString |-> <<>>, selectedPosition |-> <<>>]

notesWithOptions ==
  [i \in 1..Len(SAMPLE_SHEET_MUSIC) |-> NoteWithStringChoice(SAMPLE_SHEET_MUSIC[i])]

\* handleStringChoice: the sheet music it sets
handleStringChoice(sheet, note, option) ==
  [i \in 1..Len(sheet) |->
     IF sheet[i].id = note.id
     THEN [sheet[i] EXCEPT !.selectedString = <<option.string>>,
                           !.selectedPosition = <<option.position>>]
     ELSE sheet[i]]

\* the object { string, bin } the scene passes on: it has no selectedString
\* and no selectedPosition
StringAndBin(string, bin) ==
  [string |-> string, bin |-> bin, selectedString |-> <<>>, selectedPosition |-> <<>>]

\* the scene's own const getNotePosition.  Inside its body the name
\* getNotePosition is this same const, which hides the function imported from
\* celloMapping, so the call it makes is a call of itself
RECURSIVE sceneGetNotePosition(_, _)
sceneGetNotePosition(cm, note) ==
  IF note.selectedString = <<>> \/ note.selectedPosition = <<>> THEN NoPosition
  ELSE sceneGetNotePosition(cm, StringAndBin(note.selectedString[1], note.selectedPosition[1]))

\* the predicate of the scene's filteredNotes: within 2 s of the note
InWindow(note, time) ==
  /\ time - note.startTime >= -4
  /\ time - note.startTime <= note.duration + 4

\* the note is rendered as a FallingNote
RendersFallingNote(cm, note, time) ==
  InWindow(note, time) /\ sceneGetNotePosition(cm, note).t = "object"

\* the sheet notes the model clicks
ClickedSheetNotes == {1}

\* Play / Pause, with the animation effect and its cleanup
sheetTogglePlay ==
  /\ activeScene = "sheet"
  /\ IF isPlaying
     THEN /\ isPlaying' = FALSE
          /\ pendingRaf' = pendingRaf \ {animationRef[i] : i \in 1..Len(animationRef)}
          /\ lastOp' = "sheetPause"
          /\ UNCHANGED <<animationRef, nextRafId>>
     ELSE /\ nextRafId <= MaxRafId
          /\ isPlaying' = TRUE
          /\ animationRef' = <<nextRafId>>
          /\ pendingRaf' = pendingRaf \cup {nextRafId}
          /\ nextRafId' = nextRafId + 1
          /\ lastOp' = "sheetPlay"
  /\ NoImport
  /\ UNCHANGED <<sheetMusic, sheetCurrentTime, sheetSelectedNote, showStringChoices, clock>>
  /\ UNCHANGED <<appVars, playVars, fingerboardVars>>

\* Reset, with the effect cleanup when it stops playback
sheetReset ==
  /\ activeScene = "sheet"
  /\ sheetCurrentTime' = 0
  /\ isPlaying' = FALSE
  /\ pendingRaf' = IF isPlaying
                   THEN pendingRaf \ {animationRef[i] : i \in 1..Len(animationRef)}
                   ELSE pendingRaf
  /\ lastOp' = "sheetReset"
  /\ NoImport
  /\ UNCHANGED <<sheetMusic, sheetSelectedNote, showStringChoices, animationRef, nextRafId, clock>>
  /\ UNCHANGED <<appVars, playVars, fingerboardVars>>

\* the browser runs the pending animate callback with timestamp ts
animate ==
  /\ activeScene = "sheet"
  /\ nextRafId <= MaxRafId
  /\ \E id \in pendingRaf : \E ts \in (clock + 1)..MaxTs :
       /\ clock' = ts
       /\ sheetCurrentTime' = ts
       /\ animationRef' = <<nextRafId>>
       /\ pendingRaf' = (pendingRaf \ {id}) \cup {nextRafId}
       /\ nextRafId' = nextRafId + 1
  /\ lastOp' = "sheetFrame"
  /\ NoImport
  /\ UNCHANGED <<sheetMusic, isPlaying, sheetSelectedNote, showStringChoices>>
  /\ UNCHANGED <<appVars, playVars, fingerboardVars>>

\* a click on a note of the sheet music list
sheetHandleNoteClick ==
  /\ activeScene = "sheet"
  /\ \E i \in ClickedSheetNotes :
       /\ sheetSelectedNote' = <<sheetMusic[i]>>
       /\ showStringChoices' = TRUE
  /\ lastOp' = "sheetClick"
  /\ NoImport
  /\ UNCHANGED <<sheetMusic, sheetCurrentTime, isPlaying, animationRef>>
  /\ UNCHANGED <<appVars, playVars, browserVars, fingerboardVars>>

\* a click on one of the string choices of the selected note
sheetHandleStringChoice ==
  /\ activeScene = "sheet"
  /\ showStringChoices
  /\ sheetSelectedNote # <<>>
  /\ \E k \in 1..Len(sheetSelectedNote[1].stringOptions) :
       sheetMusic' = handleStringChoice(sheetMusic, sheetSelectedNote[1],
                                        sheetSelectedNote[1].stringOptions[k])
  /\ sheetSelectedNote' = <<>>
  /\ showStringChoices' = FALSE
  /\ lastOp' = "sheetChoice"
  /\ NoImport
  /\ UNCHANGED <<sheetCurrentTime, isPlaying, animationRef>>
  /\ UNCHANGED <<appVars, playVars, browserVars, fingerboardVars>>

\* the Cancel button of the string choices
cancelStringChoices ==
  /\ activeScene = "sheet"
  /\ showStringChoices
  /\ sheetSelectedNote # <<>>
  /\ showStringChoices' = FALSE
  /\ lastOp' = "sheetCancel"
  /\ NoImport
  /\ UNCHANGED <<sheetMusic, sheetCurrentTime, isPlaying, sheetSelectedNote, animationRef>>
  /\ UNCHANGED <<appVars, playVars, browserVars, fingerboardVars>>

\* ------------------------------------------------------------------------
\* Specifications
\* ------------------------------------------------------------------------
InitPlayVars ==
  /\ currentTime = 0
  /\ isRunning = FALSE
  /\ impactedNotes = {}
  /\ soundEnabled = TRUE
  /\ startRef = <<>>
  /\ pauseOffset = 0
  /\ rafId = <<>>
  /\ pendingRaf = {}
  /\ nextRafId = 1
  /\ clock = 1
  /\ hasImpacted = {}
  /\ reported = <<>>
  /\ tones = <<>>

\* the Fingerboard Mapping scene is not mounted: it holds no notes
Unmounted == [notes |-> <<>>, version |-> ""]

InitFingerboardVars ==
  /\ fingerboardMapping = Unmounted
  /\ selectedNote = <<>>
  /\ selectedMusicalNote = <<>>
  /\ stringOptions = <<>>
  /\ showAllNotes = FALSE
  /\ filterString = "all"

\* the Sheet Music scene is not mounted
InitSheetVars ==
  /\ sheetMusic = <<>>
  /\ sheetCurrentTime = 0
  /\ isPlaying = FALSE
  /\ sheetSelectedNote = <<>>
  /\ showStringChoices = FALSE
  /\ animationRef = <<>>

InitObservers ==
  /\ lastOp = "mount"
  /\ chosenFile = NoFile
  /\ importResult = NoMapping
  /\ promiseState = "none"
  /\ alertMsg = ""

\* the page has loaded and the Debug Scene has mounted on an empty localStorage
Init ==
  /\ currentMapping = NoMapping
  /\ activeScene = "debug"
  /\ params = InitialParams(NoEntry)
  /\ localStorage = saveParams(params)
  /\ download = NoFile
  /\ InitObservers
  /\ InitPlayVars
  /\ InitFingerboardVars
  /\ InitSheetVars

Next ==
  \/ SetParam
  \/ handleExport
  \/ handleImport
  \/ handleImportMapping
  \/ setActiveScene
  \/ ClearMapping

Spec == Init /\ [][Next]_vars

\* the Permanent Mapping scene has just been opened, after an export from the
\* Debug Scene or with no mapping loaded
InitPlay ==
  /\ currentMapping \in {NoMapping} \cup
       {ExportedMapping([DefaultParams EXCEPT !.tiltDeg = Num(d)]) : d \in {0, 30}}
  /\ activeScene = "mapping"
  /\ params = DefaultParams
  /\ localStorage = saveParams(DefaultParams)
  /\ download = IF currentMapping = NoMapping THEN NoFile ELSE exportMappingToFile(currentMapping)
  /\ InitObservers
  /\ InitPlayVars
  /\ InitFingerboardVars
  /\ InitSheetVars

NextPlay ==
  \/ togglePlay
  \/ resetAnimation
  \/ toggleSound
  \/ raf
  \/ setActiveScene

SpecPlay == InitPlay /\ [][NextPlay]_vars

\* the JSON values a user's cello-mapping.json may hold: a well-formed mapping
\* with one field or the points list replaced, null, or a number
FieldNames == {"celloScale", "centerX", "centerY", "centerZ", "hSpacing", "vSpacing", "tiltDeg"}
FieldValues == {Num(0), OverflowLiteral, JNull, SomeString, Undefined}
PointsValues ==
  { Undefined, JNull, Arr(<<>>), OnePoint, Arr(<<JNull>>),
    Arr(<<OnePoint.items[1], JNull>>), Arr(<<Num(5)>>) }
WellFormed ==
  Mapping(OnePoint, Num(500), Num(0), Num(0), Num(-50), Num(30), Num(33), Num(0), "1.0")
NumberValue == [NoMapping EXCEPT !.t = "number"]
UndefinedValue == [NoMapping EXCEPT !.t = "undefined"]
Candidates ==
  {[[WellFormed EXCEPT ![f] = v] EXCEPT !.points = pts] :
     f \in FieldNames, v \in FieldValues, pts \in PointsValues}
  \cup {[WellFormed EXCEPT !.points = pts, !.version = ""] : pts \in PointsValues}
  \cup {NoMapping, NumberValue}

\* the Debug Scene has mounted and some cello-mapping.json is on disk
InitValidate ==
  /\ currentMapping = NoMapping
  /\ activeScene = "debug"
  /\ params = InitialParams(NoEntry)
  /\ localStorage = saveParams(params)
  /\ download \in {JsonText(c) : c \in Candidates}
  /\ InitObservers
  /\ InitPlayVars
  /\ InitFingerboardVars
  /\ InitSheetVars

NextValidate ==
  \/ handleImport
  \/ ClearMapping

SpecValidate == InitValidate /\ [][NextValidate]_vars

\* the Fingerboard Mapping scene has mounted, with no mapping loaded or with
\* one exported by the Debug Scene
InitFingerboard ==
  /\ currentMapping \in {NoMapping, ExportedMapping(DefaultParams)}
  /\ activeScene = "fingerboard"
  /\ params = DefaultParams
  /\ localStorage = saveParams(DefaultParams)
  /\ download = IF currentMapping = NoMapping THEN NoFile ELSE exportMappingToFile(currentMapping)
  /\ InitObservers
  /\ InitPlayVars
  /\ fingerboardMapping = generateFingerboardMapping
  /\ selectedNote = <<>>
  /\ selectedMusicalNote = <<>>
  /\ stringOptions = <<>>
  /\ showAllNotes = FALSE
  /\ filterString = "all"
  /\ InitSheetVars

NextFingerboard ==
  \/ toggleShowAllNotes
  \/ setFilterString
  \/ handleNoteClick
  \/ selectSampleNote
  \/ clickStringOption

SpecFingerboard == InitFingerboard /\ [][NextFingerboard]_vars

\* the Sheet Music scene has mounted and its mount effect has run, with no
\* mapping loaded or with one exported by the Debug Scene
InitSheet ==
  /\ currentMapping \in {NoMapping, ExportedMapping(DefaultParams)}
  /\ activeScene = "sheet"
  /\ params = DefaultParams
  /\ localStorage = saveParams(DefaultParams)
  /\ download = IF currentMapping = NoMapping THEN NoFile ELSE exportMappingToFile(currentMapping)
  /\ InitObservers
  /\ InitPlayVars
  /\ InitFingerboardVars
  /\ sheetMusic = notesWithOptions
  /\ sheetCurrentTime = 0
  /\ isPlaying = FALSE
  /\ sheetSelectedNote = <<>>
  /\ showStringChoices = FALSE
  /\ animationRef = <<>>

NextSheet ==
  \/ sheetTogglePlay
  \/ sheetReset
  \/ animate
  \/ sheetHandleNoteClick
  \/ sheetHandleStringChoice
  \/ cancelStringChoices

SpecSheet == InitSheet /\ [][NextSheet]_vars

\* ------------------------------------------------------------------------
\* Properties
\* ------------------------------------------------------------------------
\* the scene's render: mappingExists = hasMapping(); the orange warning is shown
\* when it is false
NoMappingWarning(cm) == ~hasMapping(cm)

StringSet == {STRINGS[i] : i \in 1..Len(STRINGS)}
Bins == 0..(POINTS_PER_STRING - 1)

\* C1: round trip.  Right after an export, reading the downloaded text back
\* through importMappingFromFile resolves with a mapping equal to the exported
\* one, which passes validateMapping and becomes the mapping in memory.
C1_RoundTrip ==
  lastOp = "export" =>
    LET r == importMappingFromFile(NoMapping, download) IN
    /\ r.result = currentMapping
    /\ validateMapping(r.result)
    /\ loadMapping(r.mapping) = currentMapping

\* the failure conditions of an import of the given file
ImportFails(file) ==
  \/ file.kind = "nofile"
  \/ ParseThrows(file)
  \/ ~validateMapping(JSONparse(file))

StoresMapping ==
  lastOp' = "export" \/ (lastOp' = "import" /\ importResult' # NoMapping)

DrawnPoint(p, s, i) ==
  LET sIdx == CHOOSE k \in 0..(Len(STRINGS) - 1) : STRINGS[k + 1] = s
      pt == GridPoint(p, sIdx, i)
  IN Position(pt.x, pt.y, pt.z)

Matches(cm, s, b) ==
  IF cm.t = "object" /\ cm.points.t = "array"
  THEN Cardinality({i \in 1..Len(cm.points.items) :
                      cm.points.items[i].string = s /\ cm.points.items[i].index = b})
  ELSE 0

\* C5: whenever a mapping is loaded, each of the 40 test notes resolves to a
\* position and the mapping holds exactly one point for it.
C5_OnePositionPerNote ==
  hasMapping(currentMapping) =>
    \A k \in 1..Len(TEST_NOTES) :
      /\ getNotePosition(currentMapping, TEST_NOTES[k].string, TEST_NOTES[k].bin) # NoPosition
      /\ Matches(currentMapping, TEST_NOTES[k].string, TEST_NOTES[k].bin) = 1

ExpectedIds ==
  <<"1", "2", "3", "4", "5", "6", "7", "8", "9", "10",
    "11", "12", "13", "14", "15", "16", "17", "18", "19", "20",
    "21", "22", "23", "24", "25", "26", "27", "28", "29", "30",
    "31", "32", "33", "34", "35", "36", "37", "38", "39", "40">>

C7_SoundOnImpact ==
  /\ \A i \in 1..Len(reported) : reported[i].id \in impactedNotes
  /\ soundEnabled =>
       /\ Len(tones) = Len(reported)
       /\ \A i \in 1..Len(reported) :
            /\ tones[i].string = reported[i].string
            /\ tones[i].position = reported[i].bin
  /\ ~soundEnabled => tones = <<>>

C7_Witness ==
  /\ reported # <<>>
  /\ ~soundEnabled
  /\ tones = <<>>
  /\ reported[1].id \in impactedNotes

\* f2 is one equal-tempered semitone above f1, within five cents
SemitoneAbove(f2, f1) ==
  /\ 10565 * f1 <= 10000 * f2
  /\ 10000 * f2 <= 10625 * f1

\* C8: while the Permanent Mapping scene is shown, along the test sequence it
\* plays each note's frequency is one semitone above the frequency of the note
\* before it.
C8_SemitoneSteps ==
  activeScene = "mapping" =>
    \A k \in 1..(Len(TEST_NOTES) - 1) :
      SemitoneAbove(getNoteFrequency(TEST_NOTES[k + 1].string, TEST_NOTES[k + 1].bin),
                    getNoteFrequency(TEST_NOTES[k].string, TEST_NOTES[k].bin))

\* C9: no operation writes to localStorage.
C9_NoBrowserStorage == [][localStorage' = localStorage]_vars

\* C10: at most one animation-frame callback is pending, none is pending while
\* the scene is paused or unmounted, and a frame callback runs only in a
\* mounted, running scene.
C10_OneFramePending ==
  /\ [](/\ Cardinality(pendingRaf) <= 1
        /\ (~isRunning \/ activeScene # "mapping") => pendingRaf = {})
  /\ [][lastOp' = "frame" => (isRunning /\ activeScene = "mapping")]_vars

C10_Witness ==
  /\ lastOp = "pause"
  /\ currentTime > 0
  /\ ~isRunning
  /\ rafId # <<>>
  /\ pendingRaf = {}

\* C11: in the Fingerboard Mapping scene with a mapping exported by the Debug
\* Scene loaded, Show All Positions on and the filter on all, every note of
\* generateFingerboardMapping (positions 0..12 of the four strings) has a 3D
\* position from getNotePosition and is drawn.
C11_AllPositionsDrawn ==
  ( /\ activeScene = "fingerboard"
    /\ \E d \in TiltValues :
         currentMapping = ExportedMapping([DefaultParams EXCEPT !.tiltDeg = Num(d)])
    /\ showAllNotes
    /\ filterString = "all" ) =>
  \A i \in 1..Len(generateFingerboardMapping.notes) :
    /\ getNotePosition(currentMapping, generateFingerboardMapping.notes[i].string,
                       generateFingerboardMapping.notes[i].position).t = "object"
    /\ \E j \in 1..Len(fingerboardMapping.notes) :
         /\ fingerboardMapping.notes[j].string = generateFingerboardMapping.notes[i].string
         /\ fingerboardMapping.notes[j].position = generateFingerboardMapping.notes[i].position
         /\ Drawn(currentMapping, fingerboardMapping.notes[j], showAllNotes, filterString)

\* the options any note of the fingerboard or of the samples can offer
AllOptions == {StringOption(generateFingerboardMapping.notes[i]) :
                 i \in 1..Len(generateFingerboardMapping.notes)}

\* a step of handleStringOptionSelect with a musical note selected and option o
ReplacesOnly(o) ==
  /\ Len(fingerboardMapping'.notes) = Len(fingerboardMapping.notes)
  /\ fingerboardMapping'.version = fingerboardMapping.version
  /\ Cardinality({k \in 1..Len(fingerboardMapping.notes) :
                    /\ fingerboardMapping.notes[k].string = o.string
                    /\ fingerboardMapping.notes[k].position = o.position}) = 1
  /\ \A k \in 1..Len(fingerboardMapping.notes) :
       /\ fingerboardMapping'.notes[k].string = fingerboardMapping.notes[k].string
       /\ fingerboardMapping'.notes[k].position = fingerboardMapping.notes[k].position
       /\ fingerboardMapping'.notes[k].isOpenString = fingerboardMapping.notes[k].isOpenString
       /\ IF /\ fingerboardMapping.notes[k].string = o.string
             /\ fingerboardMapping.notes[k].position = o.position
          THEN fingerboardMapping'.notes[k].musicalNote = selectedMusicalNote[1]
          ELSE fingerboardMapping'.notes[k] = fingerboardMapping.notes[k]
  /\ selectedNote' = <<>>
  /\ selectedMusicalNote' = <<>>

\* C12: handleStringOptionSelect with a musical note selected replaces the
\* musicalNote of exactly the entry whose (string, position) is the chosen
\* option's, leaves every other entry, the number of entries, each entry's
\* string, position and isOpenString and the version as they were, and clears
\* selectedNote and selectedMusicalNote; with no musical note selected it
\* changes nothing.
C12_OptionSelectFrame ==
  /\ [](activeScene = "fingerboard" =>
         \A o \in AllOptions :
           handleStringOptionSelect(fingerboardMapping, selectedNote, <<>>, o) =
             [fingerboardMapping |-> fingerboardMapping, selectedNote |-> selectedNote,
              selectedMusicalNote |-> <<>>])
  /\ [][lastOp' = "option" =>
          \E i \in 1..Len(stringOptions) : ReplacesOnly(stringOptions[i])]_vars

C12_Witness ==
  /\ lastOp = "option"
  /\ selectedMusicalNote = <<>>
  /\ fingerboardMapping.notes[8].musicalNote = SAMPLE_NOTES[5]
  /\ fingerboardMapping.notes[14].musicalNote = generateFingerboardMapping.notes[8].musicalNote

\* C13: in the Sheet Music scene, once a string option is chosen for a sheet
\* note and the loaded mapping holds a point for that string and position,
\* the scene obtains a non-null 3D position for the note and renders it as a
\* falling note whenever currentTime is within
\* [startTime - 2, startTime + duration + 2].
C13_ChosenNoteFalls ==
  activeScene = "sheet" =>
    \A i \in 1..Len(sheetMusic) :
      ( /\ sheetMusic[i].selectedString # <<>>
        /\ sheetMusic[i].selectedPosition # <<>>
        /\ getNotePosition(currentMapping, sheetMusic[i].selectedString[1],
                           sheetMusic[i].selectedPosition[1]).t = "object" ) =>
      /\ sceneGetNotePosition(currentMapping, sheetMusic[i]).t = "object"
      /\ InWindow(sheetMusic[i], sheetCurrentTime) =>
           RendersFallingNote(currentMapping, sheetMusic[i], sheetCurrentTime)

\* C14: play, pause and reset in the Sheet Music scene.  The first frame after
\* Play shows the time shown when Play was pressed (0 the first time, the
\* paused value afterwards); the time does not move while paused; Reset sets
\* it to 0 and stops playback.
C14_PlayPauseReset ==
  [][ /\ (lastOp = "sheetPlay" /\ lastOp' = "sheetFrame") =>
           sheetCurrentTime' = sheetCurrentTime
      /\ (~isPlaying /\ lastOp' # "sheetReset") => sheetCurrentTime' = sheetCurrentTime
      /\ lastOp' = "sheetReset" => (sheetCurrentTime' = 0 /\ ~isPlaying' /\ pendingRaf' = {})
    ]_vars

\* the name and octave p semitones above the open note of a string
OpenNote == [C |-> <<0, 2>>, G |-> <<7, 2>>, D |-> <<2, 3>>, A |-> <<9, 3>>]
NameAbove(string, p) == NOTE_NAMES[((OpenNote[string][1] + p) % 12) + 1]
OctaveAbove(string, p) == OpenNote[string][2] + ((OpenNote[string][1] + p) \div 12)

\* C15: generateFingerboardMapping names the open strings C2, G2, D3 and A3
\* and position p of a string (1..12) as the note p semitones above the open
\* note in chromatic order, the octave rising exactly at B to C; position 12
\* carries the open string's name one octave higher.
C15_NoteNames ==
  lastOp = "mount" =>
    /\ Len(fingerboardMapping.notes) = Len(STRINGS) * (LastPosition + 1)
    /\ \A i \in 1..Len(fingerboardMapping.notes) :
         LET string == STRINGS[((i - 1) \div (LastPosition + 1)) + 1]
             p == (i - 1) % (LastPosition + 1)
         IN /\ fingerboardMapping.notes[i].string = string
            /\ fingerboardMapping.notes[i].position = p
            /\ fingerboardMapping.notes[i].isOpenString = (p = 0)
            /\ fingerboardMapping.notes[i].musicalNote.note = NameAbove(string, p)
            /\ fingerboardMapping.notes[i].musicalNote.octave = OctaveAbove(string, p)
            /\ p = LastPosition =>
                 /\ fingerboardMapping.notes[i].musicalNote.note =
                      fingerboardMapping.notes[i - LastPosition].musicalNote.note
                 /\ fingerboardMapping.notes[i].musicalNote.octave =
                      fingerboardMapping.notes[i - LastPosition].musicalNote.octave + 1

C15_Witness ==
  /\ lastOp = "mount"
  /\ activeScene = "fingerboard"
  /\ fingerboardMapping.notes[14].musicalNote.note = "G"
  /\ fingerboardMapping.notes[14].musicalNote.octave = 2
  /\ fingerboardMapping.notes[19].musicalNote.note = "C"
  /\ fingerboardMapping.notes[19].musicalNote.octave = 3

\* the place of an option's entry in generation order
GenIndex(o) ==
  (CHOOSE s \in 1..Len(STRINGS) : STRINGS[s] = o.string) * (LastPosition + 1) + o.position

\* the options C16 describes for musical note n
OptionsAsClaimed(n, opts) ==
  /\ \A i \in 1..Len(generateFingerboardMapping.notes) :
       LET e == generateFingerboardMapping.notes[i] IN
       (e.musicalNote.note = n.note /\ e.musicalNote.octave = n.octave) <=>
         (\E k \in 1..Len(opts) : opts[k].string = e.string /\ opts[k].position = e.position)
  /\ \A j, k \in 1..Len(opts) :
       (opts[j].string = opts[k].string /\ opts[j].position = opts[k].position) => j = k
  /\ \A k \in 1..Len(opts) :
       /\ opts[k].isOpenString = (opts[k].position = 0)
       /\ (opts[k].difficulty = "easy") = opts[k].isOpenString
       /\ (opts[k].difficulty = "medium") = (opts[k].position \in 1..4)
       /\ (opts[k].difficulty = "hard") = (opts[k].position \in 5..LastPosition)
  /\ \A j, k \in 1..Len(opts) :
       j < k =>
         \/ difficultyOrder[opts[j].difficulty] < difficultyOrder[opts[k].difficulty]
         \/ /\ opts[j].difficulty = opts[k].difficulty
            /\ GenIndex(opts[j]) < GenIndex(opts[k])

\* C16: getStringOptionsForNote(n) returns one option per generated entry
\* whose note name and octave are n's, labelled easy for an open string,
\* medium for positions 1..4 and hard for 5..12, ordered easy, medium, hard
\* with equal difficulties in generation order (C, G, D, A).
C16_StringOptions ==
  /\ selectedMusicalNote # <<>> => OptionsAsClaimed(selectedMusicalNote[1], stringOptions)
  /\ lastOp = "mount" =>
       /\ \A i \in 1..Len(SAMPLE_NOTES) :
            OptionsAsClaimed(SAMPLE_NOTES[i], getStringOptionsForNote(SAMPLE_NOTES[i]))
       /\ \A i \in 1..Len(fingerboardMapping.notes) :
            OptionsAsClaimed(fingerboardMapping.notes[i].musicalNote,
                             getStringOptionsForNote(fingerboardMapping.notes[i].musicalNote))

C16_Witness ==
  /\ selectedMusicalNote = <<SAMPLE_NOTES[5]>>
  /\ Len(stringOptions) = 2
  /\ stringOptions[1].string = "G" /\ stringOptions[1].difficulty = "easy"
  /\ stringOptions[2].string = "C" /\ stringOptions[2].difficulty = "hard"

\* the condition of C17: truthy, a non-empty points array, seven numbers
Accepted(m) ==
  /\ m.t \notin {"null", "undefined"}
  /\ m.points.t = "array"
  /\ m.points.items # <<>>
  /\ \A f \in FieldNames : m[f].t \in {"finite", "Infinity", "NaN"}

\* C17: validateMapping accepts a value exactly when it is truthy, its points
\* is an array with at least one element and its seven numeric fields all
\* have type number; the version and the elements of points play no part.
\* An import of a JSON file resolves with the mapping exactly in that case.
C17_ValidateExact ==
  /\ (lastOp = "import" /\ chosenFile.kind = "json") =>
        ((importResult # NoMapping) <=> Accepted(JSONparse(chosenFile)))
  /\ lastOp = "mount" =>
        \A c \in {JSONparse(download), UndefinedValue} : validateMapping(c) <=> Accepted(c)

C17_Witness ==
  /\ lastOp = "import"
  /\ importResult # NoMapping
  /\ importResult.version = ""
  /\ importResult.points = Arr(<<Num(5)>>)

\* C18: a mapping that validateMapping accepted is safe to use: with it
\* loaded, getNotePosition and getStringPositions return for every string and
\* bin (null or an empty list when nothing matches) and never throw.
C18_AcceptedIsSafe ==
  (lastOp = "import" /\ importResult # NoMapping) =>
    \A s \in StringSet :
      /\ getStringPositions(currentMapping, s) # <<Thrown>>
      /\ \A bin \in Bins : getNotePosition(currentMapping, s, bin) # Thrown

====
